---- MODULE Spec2Model ----
(***************************************************************************)
(* Model of the Pseudo language server (src/unnamed/part_000): the         *)
(* document manager it listens with, the completion handler and the        *)
(* diagnostic scan run on every content change.                            *)
(*                                                                         *)
(* Text is a sequence of one-character strings; a line, a prefix and a     *)
(* captured name are such sequences too.  JavaScript indices are           *)
(* zero-based and are kept zero-based in positions and ranges.             *)
(***************************************************************************)
EXTENDS Integers, Sequences, FiniteSets, TLC

VARIABLES
    documents,   \* the TextDocuments manager: uri -> NoDocument or [text, version]
    published,   \* per uri, the payload of the latest sendDiagnostics, or NotPublished
    lastEvent,   \* the event whose handler ran last
    sent,        \* the sendDiagnostics calls made by that handler, in order
    response,    \* what that handler returned to the connection
    input,       \* argument of the function under test (function specifications)
    output       \* its result, NotComputed before the call

vars == <<documents, published, lastEvent, sent, response, input, output>>

----------------------------------------------------------------------------
(* Bounds of the model *)

MaxVersion == 2
MaxTextLen == 8
MaxLine == 1
MaxCharacter == 2
MaxPrefixLen == 3
MaxBodyLen == 5

----------------------------------------------------------------------------
(* Characters *)

Min(a, b) == IF a < b THEN a ELSE b
Max(a, b) == IF a > b THEN a ELSE b

\* \s of a JavaScript regular expression, restricted to the ASCII members
SpaceChars == {" ", "\t", "\n", "\r", "\f"}

IsSpace(c) == c \in SpaceChars

\* \w of a JavaScript regular expression: [A-Za-z0-9_]
WordChars ==
    {"a","b","c","d","e","f","g","h","i","j","k","l","m",
     "n","o","p","q","r","s","t","u","v","w","x","y","z",
     "A","B","C","D","E","F","G","H","I","J","K","L","M",
     "N","O","P","Q","R","S","T","U","V","W","X","Y","Z",
     "0","1","2","3","4","5","6","7","8","9","_"}

IsWord(c) == c \in WordChars

\* the string a sequence of characters spells
RECURSIVE Str(_)
Str(cs) == IF cs = <<>> THEN "" ELSE cs[1] \o Str(Tail(cs))

\* String.prototype.split('\n'): never empty, "" splits to [""]
RECURSIVE Split(_)
Split(text) ==
    IF \A i \in 1..Len(text) : text[i] # "\n"
    THEN <<text>>
    ELSE LET i == CHOOSE i \in 1..Len(text) :
                     text[i] = "\n" /\ \A j \in 1..(i - 1) : text[j] # "\n"
         IN  <<SubSeq(text, 1, i - 1)>> \o Split(SubSeq(text, i + 1, Len(text)))

\* String.prototype.substring(0, end): end is clamped to [0, length]
Substring0(s, end) == SubSeq(s, 1, Min(Max(end, 0), Len(s)))

\* String.prototype.indexOf(sub): the FIRST index where sub occurs, -1 if none
IndexOf(s, sub) ==
    LET at == {i \in 0..(Len(s) - Len(sub)) : SubSeq(s, i + 1, i + Len(sub)) = sub}
    IN  IF at = {} THEN -1 ELSE CHOOSE i \in at : \A j \in at : i <= j

\* String.prototype.includes(' ')
IncludesSpace(s) == \E i \in 1..Len(s) : s[i] = " "

\* String.prototype.startsWith('"')
StartsWithQuote(s) == Len(s) > 0 /\ s[1] = "\""

----------------------------------------------------------------------------
(* The keyword catalog *)

KEYWORDS ==
    [declarations |-> <<"app", "domain", "feature", "model", "component", "page",
                        "request", "response", "route", "auth", "guard", "form",
                        "service", "repository", "config", "event", "state">>,
     types        |-> <<"string", "number", "boolean", "date", "email", "url",
                        "uuid", "array", "object">>,
     modifiers    |-> <<"required", "optional", "unique", "indexed", "default">>,
     actions      |-> <<"create", "update", "delete", "query", "list", "show",
                        "hide", "toggle", "validate", "redirect", "authenticate",
                        "authorize", "transform", "filter", "sort", "paginate">>,
     control      |-> <<"if", "else", "when", "for each", "try", "catch", "return">>,
     properties   |-> <<"path", "guard", "description", "language", "framework",
                        "database", "styling", "components", "authentication">>]

----------------------------------------------------------------------------
(* Completion: the context patterns and the candidates they add *)

\* LineStartPattern without its end anchor, /^\s*/ : matches every prefix
LineStartPatternUnanchored(beforeCursor) ==
    \E k \in 0..Len(beforeCursor) : \A i \in 1..k : IsSpace(beforeCursor[i])

\* /^\s*$/ : the text before the cursor is empty or whitespace only
LineStartPattern(beforeCursor) ==
    \A i \in 1..Len(beforeCursor) : IsSpace(beforeCursor[i])

\* /:\s*$/ : a colon, then only whitespace up to the cursor
AfterColonPattern(beforeCursor) ==
    \E c \in 1..Len(beforeCursor) :
        /\ beforeCursor[c] = ":"
        /\ \A j \in (c + 1)..Len(beforeCursor) : IsSpace(beforeCursor[j])

\* TypePositionPattern asking for at least one word character, /:\s*\w+$/
TypePositionPatternWordRequired(beforeCursor) ==
    \E c \in 1..Len(beforeCursor) :
        /\ beforeCursor[c] = ":"
        /\ \E k \in c..(Len(beforeCursor) - 1) :
               /\ \A j \in (c + 1)..k : IsSpace(beforeCursor[j])
               /\ \A j \in (k + 1)..Len(beforeCursor) : IsWord(beforeCursor[j])

\* /:\s*\w*$/ : a colon, whitespace, then word characters up to the cursor
TypePositionPattern(beforeCursor) ==
    \E c \in 1..Len(beforeCursor) :
        /\ beforeCursor[c] = ":"
        /\ \E k \in c..Len(beforeCursor) :
               /\ \A j \in (c + 1)..k : IsSpace(beforeCursor[j])
               /\ \A j \in (k + 1)..Len(beforeCursor) : IsWord(beforeCursor[j])

\* DeclarationItem with the placeholder Name for every keyword, app included
DeclarationItemOnePlaceholder(keyword) ==
    [label            |-> keyword,
     kind             |-> "Keyword",
     detail           |-> keyword \o " declaration",
     insertText       |-> keyword \o " \"${1:Name}\":",
     insertTextFormat |-> 2]

DeclarationItem(keyword) ==
    [label            |-> keyword,
     kind             |-> "Keyword",
     detail           |-> keyword \o " declaration",
     insertText       |-> IF keyword = "app"
                          THEN keyword \o " \"${1:ProjectName}\":"
                          ELSE keyword \o " \"${1:Name}\":",
     insertTextFormat |-> 2]

PropertyItem(prop) ==
    [label |-> prop, kind |-> "Property", detail |-> prop \o " property"]

ActionItem(action) ==
    [label |-> action, kind |-> "Method", detail |-> action \o " action"]

TypeItem(type) ==
    [label |-> type, kind |-> "TypeParameter", detail |-> type \o " type"]

ModifierItem(modifier) ==
    [label |-> modifier, kind |-> "Keyword", detail |-> modifier \o " modifier"]

\* the item a forEach callback pushes for a keyword of the category
CategoryItem(category, keyword) ==
    CASE category = "declarations" -> DeclarationItem(keyword)
      [] category = "properties"   -> PropertyItem(keyword)
      [] category = "actions"      -> ActionItem(keyword)
      [] category = "types"        -> TypeItem(keyword)
      [] category = "modifiers"    -> ModifierItem(keyword)

\* Array.prototype.forEach pushing one item per keyword: the items pushed, in
\* catalog order
RECURSIVE ForEachPush(_, _)
ForEachPush(keywords, category) ==
    IF keywords = <<>> THEN <<>>
    ELSE <<CategoryItem(category, Head(keywords))>>
         \o ForEachPush(Tail(keywords), category)

DeclarationItems == ForEachPush(KEYWORDS.declarations, "declarations")
PropertyItems == ForEachPush(KEYWORDS.properties, "properties")
ActionItems == ForEachPush(KEYWORDS.actions, "actions")
TypeItems == ForEachPush(KEYWORDS.types, "types")
ModifierItems == ForEachPush(KEYWORDS.modifiers, "modifiers")

\* ContextCompletions with the blocks chained by else: the first matching
\* context wins and the later ones are not looked at
ContextCompletionsFirstMatch(beforeCursor) ==
    (IF LineStartPattern(beforeCursor) THEN DeclarationItems
     ELSE IF AfterColonPattern(beforeCursor) THEN PropertyItems \o ActionItems
     ELSE IF TypePositionPattern(beforeCursor) THEN TypeItems
     ELSE <<>>)
    \o ModifierItems

\* ContextCompletions with the modifiers offered only when no context matched
ContextCompletionsModifiersFallback(beforeCursor) ==
    LET contextual ==
            (IF LineStartPattern(beforeCursor) THEN DeclarationItems ELSE <<>>)
            \o (IF AfterColonPattern(beforeCursor)
                THEN PropertyItems \o ActionItems ELSE <<>>)
            \o (IF TypePositionPattern(beforeCursor) THEN TypeItems ELSE <<>>)
    IN  IF contextual = <<>> THEN ModifierItems ELSE contextual

\* the four independent `if` blocks of the handler, each pushing onto completions
ContextCompletions(beforeCursor) ==
    LET afterLineStart == IF LineStartPattern(beforeCursor)
                          THEN DeclarationItems ELSE <<>>
        afterColon     == IF AfterColonPattern(beforeCursor)
                          THEN afterLineStart \o PropertyItems \o ActionItems
                          ELSE afterLineStart
        afterType      == IF TypePositionPattern(beforeCursor)
                          THEN afterColon \o TypeItems ELSE afterColon
    IN  afterType \o ModifierItems

\* the handler's body once the document is found: a line index outside the
\* split text reads undefined, and undefined.substring throws a TypeError
CompletionAt(text, position) ==
    LET lines == Split(text)
    IN  IF position.line + 1 \in 1..Len(lines)
        THEN [threw |-> FALSE,
              items |-> ContextCompletions(
                            Substring0(lines[position.line + 1], position.character))]
        ELSE [threw |-> TRUE, items |-> <<>>]

----------------------------------------------------------------------------
(* Validation: the declaration-header pattern and the naming check *)

\* the alternation of the declaration pattern, in its written order
DeclarationAlternatives ==
    <<
      <<"a", "p", "p">>,
      <<"d", "o", "m", "a", "i", "n">>,
      <<"f", "e", "a", "t", "u", "r", "e">>,
      <<"m", "o", "d", "e", "l">>,
      <<"c", "o", "m", "p", "o", "n", "e", "n", "t">>,
      <<"p", "a", "g", "e">>,
      <<"r", "e", "q", "u", "e", "s", "t">>,
      <<"r", "e", "s", "p", "o", "n", "s", "e">>,
      <<"r", "o", "u", "t", "e">>,
      <<"a", "u", "t", "h">>,
      <<"g", "u", "a", "r", "d">>,
      <<"f", "o", "r", "m">>,
      <<"s", "e", "r", "v", "i", "c", "e">>,
      <<"r", "e", "p", "o", "s", "i", "t", "o", "r", "y">>,
      <<"c", "o", "n", "f", "i", "g">>,
      <<"e", "v", "e", "n", "t">>,
      <<"s", "t", "a", "t", "e">>
    >>

\* every way /^\s*(kw)\s+([^:]+):\s*$/ can match the line; lead, ws and name
\* are the lengths taken by \s*, \s+ and [^:]+, kw the alternative taken
DeclarationMatches(line) ==
    LET n == Len(line)
        Leads == {l \in 0..n : \A i \in 1..l : IsSpace(line[i])}
        KwAt(l) == {k \in 1..Len(DeclarationAlternatives) :
                       LET kw == DeclarationAlternatives[k]
                       IN  /\ l + Len(kw) <= n
                           /\ \A i \in 1..Len(kw) : line[l + i] = kw[i]}
        Colons == {c \in 1..n : /\ line[c] = ":"
                                /\ \A j \in (c + 1)..n : IsSpace(line[j])}
        Gaps(l, k, c) ==
            LET from == l + Len(DeclarationAlternatives[k])
            IN  {w \in 1..(c - from - 2) :
                    /\ \A j \in (from + 1)..(from + w) : IsSpace(line[j])
                    /\ \A j \in (from + w + 1)..(c - 1) : line[j] # ":"}
    IN  UNION { UNION { UNION { { [lead |-> l, kw |-> k, ws |-> w,
                                   name |-> c - (l + Len(DeclarationAlternatives[k]) + w) - 1]
                                  : w \in Gaps(l, k, c) }
                                : c \in Colons }
                        : k \in KwAt(l) }
                : l \in Leads }

\* the order in which the backtracking matcher tries them: greedy quantifiers
\* longest first, alternatives first to last
TriedBefore(m1, m2) ==
    \/ m1.lead > m2.lead
    \/ m1.lead = m2.lead /\ m1.kw < m2.kw
    \/ m1.lead = m2.lead /\ m1.kw = m2.kw /\ m1.ws > m2.ws
    \/ m1.lead = m2.lead /\ m1.kw = m2.kw /\ m1.ws = m2.ws /\ m1.name > m2.name

NoMatch == [matched |-> FALSE]

\* line.match(pattern): null, or the groups of the first match found
DeclarationMatch(line) ==
    LET ms == DeclarationMatches(line)
    IN  IF ms = {} THEN NoMatch
        ELSE LET m == CHOOSE m \in ms : \A o \in ms : o = m \/ TriedBefore(m, o)
                 kw == DeclarationAlternatives[m.kw]
                 nameFrom == m.lead + Len(kw) + m.ws
             IN  [matched |-> TRUE,
                  keyword |-> kw,
                  name    |-> SubSeq(line, nameFrom + 1, nameFrom + m.name),
                  index   |-> nameFrom]

\* the check made on a matched header
NeedsQuotes(name) == IncludesSpace(name) /\ ~StartsWithQuote(name)

\* NameColumn with the receiver and the argument swapped: name.indexOf(line)
NameColumnSwapped(line, name) == IndexOf(name, line)

\* the column the diagnostic's range starts at
NameColumn(line, name) == IndexOf(line, name)

\* the diagnostics one line contributes (the body of the forEach callback)
LineDiagnostics(line, lineNumber) ==
    LET declarationMatch == DeclarationMatch(line)
    IN  IF declarationMatch.matched /\ NeedsQuotes(declarationMatch.name)
        THEN LET name == declarationMatch.name
                 keyword == declarationMatch.keyword
             IN  << [severity |-> "Warning",
                     range    |-> [start |-> [line |-> lineNumber,
                                              character |-> NameColumn(line, name)],
                                   end   |-> [line |-> lineNumber,
                                              character |-> NameColumn(line, name) + Len(name)]],
                     message  |-> "Multi-word " \o Str(keyword)
                                  \o " names should be quoted: \"" \o Str(name) \o "\"",
                     source   |-> "pseudo-lang"] >>
        ELSE <<>>

RECURSIVE ScanLines(_, _)
ScanLines(lines, lineNumber) ==
    IF lineNumber >= Len(lines) THEN <<>>
    ELSE LineDiagnostics(lines[lineNumber + 1], lineNumber)
         \o ScanLines(lines, lineNumber + 1)

\* the diagnostics array validateTextDocument hands to sendDiagnostics
validateTextDocument(text) == ScanLines(Split(text), 0)

----------------------------------------------------------------------------
(* The document manager: TextDocuments over TextDocument, incremental sync *)

Uris == {"file:///a.pseudo", "file:///b.pseudo"}

Versions == 1..MaxVersion

\* the offset at which each line of the text starts
LineOffsets(text) ==
    LET breaks == {i \in 1..Len(text) : text[i] = "\n"}
        RECURSIVE Asc(_)
        Asc(s) == IF s = {} THEN <<>>
                  ELSE LET m == CHOOSE x \in s : \A y \in s : x <= y
                       IN  <<m>> \o Asc(s \ {m})
    IN  <<0>> \o Asc(breaks)

\* TextDocument.offsetAt: a position past the text or past its line is clamped
OffsetAt(text, position) ==
    LET lineOffsets == LineOffsets(text)
    IN  IF position.line >= Len(lineOffsets) THEN Len(text)
        ELSE IF position.line < 0 THEN 0
        ELSE LET lineOffset == lineOffsets[position.line + 1]
                 nextLineOffset == IF position.line + 1 < Len(lineOffsets)
                                   THEN lineOffsets[position.line + 2]
                                   ELSE Len(text)
                 offset == Min(lineOffset + position.character, nextLineOffset)
             IN  IF position.character <= 0 THEN lineOffset
                 ELSE IF offset > lineOffset /\ text[offset] = "\n"
                      THEN offset - 1 ELSE offset

\* TextDocument.update for one content change: a change with a range replaces
\* that range, a change without one replaces the whole text
ApplyChange(text, change) ==
    IF change.incremental
    THEN LET startOffset == OffsetAt(text, change.range.start)
             endOffset == OffsetAt(text, change.range.end)
         IN  SubSeq(text, 1, startOffset) \o change.text
             \o SubSeq(text, endOffset + 1, Len(text))
    ELSE change.text

\* Map.set and Map.delete on the manager's synced documents
MapSet(map, key, value) ==
    [k \in DOMAIN map \cup {key} |-> IF k = key THEN value ELSE map[k]]
MapDelete(map, key) ==
    [k \in DOMAIN map \ {key} |-> map[k]]

EmptyMap == [k \in {} |-> 0]

----------------------------------------------------------------------------
(* Handlers *)

\* OnDidChangeContent scanning the text the manager held before the event
OnDidChangeContentStale(uri, document) ==
    << [uri |-> uri,
        diagnostics |-> validateTextDocument(IF uri \in DOMAIN documents
                                             THEN documents[uri].text
                                             ELSE document.text)] >>

\* documents.onDidChangeContent: validate the changed document and publish its
\* whole diagnostic set; yields the sendDiagnostics calls made
OnDidChangeContent(uri, document) ==
    << [uri |-> uri, diagnostics |-> validateTextDocument(document.text)] >>

\* what the client holds for every uri after the calls in `calls`
RECURSIVE Publish(_, _)
Publish(held, calls) ==
    IF calls = <<>> THEN held
    ELSE Publish(MapSet(held, calls[1].uri, calls[1].diagnostics), Tail(calls))

\* textDocument/didOpen: the manager stores the document (replacing one already
\* held under the uri) and fires onDidChangeContent
DidOpen(uri, text, version) ==
    /\ documents' = MapSet(documents, uri, [text |-> text, version |-> version])
    /\ sent' = OnDidChangeContent(uri, documents'[uri])
    /\ published' = Publish(published, sent')
    /\ lastEvent' = [type |-> "didOpen", uri |-> uri]
    /\ response' = [kind |-> "none"]
    /\ UNCHANGED <<input, output>>

\* the version the manager stores for an edited document: the one the
\* notification carries, whatever the stored one was
UpdatedVersion(current, newVersion) == newVersion

\* textDocument/didChange: an untracked uri is ignored; a tracked document is
\* updated in place and onDidChangeContent fires
DidChange(uri, change, version) ==
    /\ lastEvent' = [type |-> "didChange", uri |-> uri, version |-> version]
    /\ response' = [kind |-> "none"]
    /\ UNCHANGED <<input, output>>
    /\ IF uri \in DOMAIN documents
       THEN /\ documents' = MapSet(documents, uri,
                   [text    |-> ApplyChange(documents[uri].text, change),
                    version |-> UpdatedVersion(documents[uri].version, version)])
            /\ Len(documents'[uri].text) <= MaxTextLen
            /\ sent' = OnDidChangeContent(uri, documents'[uri])
            /\ published' = Publish(published, sent')
       ELSE /\ sent' = <<>>
            /\ UNCHANGED <<documents, published>>

\* the sendDiagnostics calls made when a document is closed: the server
\* registers no listener for the manager's close event
OnDidClose(uri) == <<>>

\* textDocument/didClose: the manager forgets the document
DidClose(uri) ==
    /\ documents' = MapDelete(documents, uri)
    /\ sent' = IF uri \in DOMAIN documents THEN OnDidClose(uri) ELSE <<>>
    /\ published' = Publish(published, sent')
    /\ lastEvent' = [type |-> "didClose", uri |-> uri,
                     tracked |-> uri \in DOMAIN documents]
    /\ response' = [kind |-> "none"]
    /\ UNCHANGED <<input, output>>

\* connection.onCompletion: [] for an unknown uri; otherwise the candidates, or
\* the TypeError thrown on the way, which the connection answers with an error
onCompletion(uri, position) ==
    IF uri \notin DOMAIN documents
    THEN [kind |-> "result", items |-> <<>>]
    ELSE LET r == CompletionAt(documents[uri].text, position)
         IN  IF r.threw THEN [kind |-> "error", error |-> "TypeError"]
             ELSE [kind |-> "result", items |-> r.items]

Completion(uri, position) ==
    /\ response' = onCompletion(uri, position)
    /\ lastEvent' = [type |-> "completion", uri |-> uri, position |-> position]
    /\ sent' = <<>>
    /\ UNCHANGED <<documents, published, input, output>>

----------------------------------------------------------------------------
(* The server under a client's events *)

\* app p p:
TextUnquoted == <<"a","p","p"," ","p"," ","p",":">>
\* app "p":
TextQuoted == <<"a","p","p"," ","\"","p","\"",":">>
\* a:<newline> p
TextTwoLines == <<"a",":","\n"," ","p">>

OpenTexts == {TextUnquoted, TextTwoLines}

At(line, character) == [line |-> line, character |-> character]

Changes ==
    { \* quote the name of the header on the first line
      [incremental |-> TRUE, range |-> [start |-> At(0, 4), end |-> At(0, 7)],
       text |-> <<"\"","p","\"">>],
      \* delete the first line
      [incremental |-> TRUE, range |-> [start |-> At(0, 0), end |-> At(1, 0)],
       text |-> <<>>],
      \* replace the whole text
      [incremental |-> FALSE, text |-> <<"a","p","p"," ","p"," ",":">>] }

Positions == {At(l, c) : l \in 0..MaxLine, c \in 0..MaxCharacter}

NotComputed == [computed |-> FALSE]

Init ==
    /\ documents = EmptyMap
    /\ published = EmptyMap
    /\ lastEvent = [type |-> "none"]
    /\ sent = <<>>
    /\ response = [kind |-> "none"]
    /\ input = <<>>
    /\ output = NotComputed

Next ==
    \/ \E uri \in Uris, text \in OpenTexts, version \in Versions :
           DidOpen(uri, text, version)
    \/ \E uri \in Uris, change \in Changes, version \in Versions :
           DidChange(uri, change, version)
    \/ \E uri \in Uris : DidClose(uri)
    \/ \E uri \in Uris, position \in Positions : Completion(uri, position)

Spec == Init /\ [][Next]_vars

----------------------------------------------------------------------------
(* Completion requests against one open document of any small text *)

OpenUri == "file:///a.pseudo"

CompletionChars == {" ", ":", "a", "-", "\n"}

CompletionTexts == UNION {[1..k -> CompletionChars] : k \in 0..MaxPrefixLen}

CompletionPositions == {At(l, c) : l \in 0..MaxLine, c \in 0..MaxPrefixLen}

\* the server right after the client opened OpenUri with the text
InitCompletion ==
    \E text \in CompletionTexts :
            /\ documents = MapSet(EmptyMap, OpenUri, [text |-> text, version |-> 1])
            /\ sent = OnDidChangeContent(OpenUri, documents[OpenUri])
            /\ published = Publish(EmptyMap, sent)
            /\ lastEvent = [type |-> "didOpen", uri |-> OpenUri]
            /\ response = [kind |-> "none"]
            /\ input = <<>>
            /\ output = NotComputed

NextCompletion ==
    \E uri \in Uris, position \in CompletionPositions : Completion(uri, position)

SpecCompletion == InitCompletion /\ [][NextCompletion]_vars

----------------------------------------------------------------------------
(* validateTextDocument applied to every small text of header-like lines *)

ScanChars == {"p", " ", "\"", ":"}

ScanBodies == UNION {[1..k -> ScanChars] : k \in 0..MaxBodyLen}

\* optional indentation, the keyword app or the non-keyword ap, then the body
ScanLineSet ==
    {lead \o head \o body : lead \in {<<>>, <<" ">>},
                            head \in {<<"a","p","p">>, <<"a","p">>},
                            body \in ScanBodies}

ScanTexts ==
    ScanLineSet \cup
    {line \o <<"\n">> \o second : line \in ScanLineSet,
                                   second \in {TextUnquoted, TextQuoted}}

InitValidate ==
    /\ documents = EmptyMap
    /\ published = EmptyMap
    /\ lastEvent = [type |-> "none"]
    /\ sent = <<>>
    /\ response = [kind |-> "none"]
    /\ input \in ScanTexts
    /\ output = NotComputed

Validate ==
    /\ output = NotComputed
    /\ output' = [computed |-> TRUE, diagnostics |-> validateTextDocument(input)]
    /\ UNCHANGED <<documents, published, lastEvent, sent, response, input>>

NextValidate == Validate

SpecValidate == InitValidate /\ [][NextValidate]_vars

----------------------------------------------------------------------------
(* Properties *)

\* the request the last handler answered, when it was a completion request
IsCompletion == lastEvent.type = "completion"

RequestTracked == lastEvent.uri \in DOMAIN documents

RequestLines == Split(documents[lastEvent.uri].text)

RequestLineInRange == lastEvent.position.line + 1 \in 1..Len(RequestLines)

\* the text before the cursor of a request on an existing line
RequestPrefix ==
    Substring0(RequestLines[lastEvent.position.line + 1], lastEvent.position.character)

Labels(items) == [i \in 1..Len(items) |-> items[i].label]

LabelKinds(items) == [i \in 1..Len(items) |-> <<items[i].label, items[i].kind>>]

OfKind(keywords, kind) == [i \in 1..Len(keywords) |-> <<keywords[i], kind>>]

Blank(prefix) == \A i \in 1..Len(prefix) : prefix[i] \in {" ", "\t"}

\* C1: a completion request never propagates a fault: for an unknown uri, or a
\* tracked document and a line index outside [0, lineCount), the handler ends
\* with an empty candidate list instead of throwing.
C1_CompletionNeverFaults ==
    IsCompletion =>
        /\ response.kind = "result"
        /\ (~RequestTracked \/ ~RequestLineInRange) => response.items = <<>>

\* C2: each successful open, each successful edit and each close of a tracked
\* uri makes its handler re-validate and publish diagnostics for that uri.
C2_EveryMutationRevalidates ==
    (\/ lastEvent.type = "didOpen"
     \/ lastEvent.type = "didChange" /\ lastEvent.uri \in DOMAIN documents
     \/ lastEvent.type = "didClose" /\ lastEvent.tracked)
    => \E i \in 1..Len(sent) : sent[i].uri = lastEvent.uri

\* C3: for every tracked uri the diagnostics published last are exactly the
\* scan of the document's whole current text, and every publish a handler
\* makes carries that complete set.
C3_PublishedIsFullScan ==
    /\ \A uri \in DOMAIN documents :
           /\ uri \in DOMAIN published
           /\ published[uri] = validateTextDocument(documents[uri].text)
    /\ \A i \in 1..Len(sent) :
           sent[i].uri \in DOMAIN documents =>
               sent[i].diagnostics = validateTextDocument(documents[sent[i].uri].text)

\* an edit was applied that turned a clean document into one with a warning
C3_Witness ==
    /\ lastEvent.type = "didChange"
    /\ lastEvent.uri \in DOMAIN documents
    /\ documents[lastEvent.uri].text = <<"a","p","p"," ","p"," ",":">>
    /\ Len(published[lastEvent.uri]) = 1
    /\ \E other \in DOMAIN documents :
           other # lastEvent.uri /\ published[other] = <<>>

\* C4: every Warning's range spans exactly the captured name: it starts at the
\* column where the pattern captured the name and ends that column plus the
\* name's length, also when the same characters occur earlier in the line.
C4_RangeSpansCapturedName ==
    output.computed =>
        \A i \in 1..Len(output.diagnostics) :
            LET d == output.diagnostics[i]
                m == DeclarationMatch(Split(input)[d.range.start.line + 1])
            IN  /\ m.matched
                /\ d.range.start.character = m.index
                /\ d.range.end.character = m.index + Len(m.name)

\* a space with a non-space character somewhere before and somewhere after it
HasInternalSpace(name) ==
    \E i \in 1..Len(name) :
        /\ name[i] = " "
        /\ \E j \in 1..(i - 1) : ~IsSpace(name[j])
        /\ \E j \in (i + 1)..Len(name) : ~IsSpace(name[j])

DiagnosticsOnLine(diagnostics, lineNumber) ==
    {i \in 1..Len(diagnostics) : diagnostics[i].range.start.line = lineNumber}

\* C5: a Warning is emitted for a header line only when the captured name has
\* an internal space and does not begin with a quote; a single word followed
\* by whitespace, or a whitespace-only name, gets none.
C5_WarningOnlyForInternalSpace ==
    output.computed =>
        \A l \in 1..Len(Split(input)) :
            DiagnosticsOnLine(output.diagnostics, l - 1) # {} =>
                LET m == DeclarationMatch(Split(input)[l])
                IN  /\ m.matched
                    /\ HasInternalSpace(m.name)
                    /\ ~StartsWithQuote(m.name)

\* a declaration header whose unquoted name is two or more words
Offending(line) ==
    LET m == DeclarationMatch(line)
    IN  /\ m.matched
        /\ ~StartsWithQuote(m.name)
        /\ HasInternalSpace(m.name)

\* C6: validate emits exactly one Warning, naming the line's keyword, for each
\* header line with an unquoted name of two or more words, and nothing for any
\* other line: the diagnostics count the offending lines.
C6_OneWarningPerOffendingLine ==
    output.computed =>
        /\ \A l \in 1..Len(Split(input)) :
               LET on == DiagnosticsOnLine(output.diagnostics, l - 1)
                   line == Split(input)[l]
               IN  IF Offending(line)
                   THEN /\ Cardinality(on) = 1
                        /\ \A i \in on :
                               output.diagnostics[i].message =
                                   "Multi-word " \o Str(DeclarationMatch(line).keyword)
                                   \o " names should be quoted: \""
                                   \o Str(DeclarationMatch(line).name) \o "\""
                   ELSE on = {}
        /\ Len(output.diagnostics) =
               Cardinality({l \in 1..Len(Split(input)) : Offending(Split(input)[l])})

\* C7: for a tracked document and a position on one of its lines, whatever the
\* text before the cursor, the result ends with the five modifier keywords.
C7_ModifiersAlwaysLast ==
    (IsCompletion /\ RequestTracked /\ RequestLineInRange) =>
        /\ response.kind = "result"
        /\ Len(response.items) >= Len(KEYWORDS.modifiers)
        /\ Labels(SubSeq(response.items,
                         Len(response.items) - Len(KEYWORDS.modifiers) + 1,
                         Len(response.items)))
               = <<"required", "optional", "unique", "indexed", "default">>

\* a request after a non-word character: only the modifiers come back
C7_WitnessNoContext ==
    /\ IsCompletion /\ RequestTracked /\ RequestLineInRange
    /\ RequestPrefix = <<"a", "-">>
    /\ Len(response.items) = 5

\* C8: the result is the concatenation, in the order LineStart, AfterColon,
\* TypePosition, Always, of the contribution of every rule whose pattern
\* matches the prefix, each category in catalog order.
C8_UnionInRuleOrder ==
    (IsCompletion /\ RequestTracked /\ RequestLineInRange) =>
        /\ response.kind = "result"
        /\ LabelKinds(response.items) =
               (IF LineStartPattern(RequestPrefix)
                THEN OfKind(KEYWORDS.declarations, "Keyword") ELSE <<>>)
               \o (IF AfterColonPattern(RequestPrefix)
                   THEN OfKind(KEYWORDS.properties, "Property")
                        \o OfKind(KEYWORDS.actions, "Method")
                   ELSE <<>>)
               \o (IF TypePositionPattern(RequestPrefix)
                   THEN OfKind(KEYWORDS.types, "TypeParameter") ELSE <<>>)
               \o OfKind(KEYWORDS.modifiers, "Keyword")

\* a request right after a colon: rules 2 and 3 both contribute
C8_WitnessTwoRules ==
    /\ IsCompletion /\ RequestTracked /\ RequestLineInRange
    /\ AfterColonPattern(RequestPrefix) /\ TypePositionPattern(RequestPrefix)
    /\ Len(response.items) = 9 + 16 + 9 + 5

Occurs(x, seq) == \E k \in 1..Len(seq) : seq[k] = x

IsSnippet(item) ==
    /\ "insertTextFormat" \in DOMAIN item
    /\ item.insertTextFormat = 2

\* C9: on an empty or whitespace-only prefix the result holds one snippet
\* candidate per declaration keyword, <keyword> "<placeholder>": with the
\* placeholder ProjectName for app and Name for the others; every other
\* candidate is no snippet and carries no insertText, so its label, a bare
\* keyword of the catalog, is what gets inserted.
C9_DeclarationSnippets ==
    (IsCompletion /\ RequestTracked /\ RequestLineInRange) =>
        /\ response.kind = "result"
        /\ Blank(RequestPrefix) =>
               /\ Len(response.items) >= Len(KEYWORDS.declarations)
               /\ \A i \in 1..Len(KEYWORDS.declarations) :
                      LET keyword == KEYWORDS.declarations[i]
                          item == response.items[i]
                      IN  /\ item.label = keyword
                          /\ IsSnippet(item)
                          /\ item.insertText =
                                 keyword \o " \"${1:"
                                 \o (IF keyword = "app" THEN "ProjectName" ELSE "Name")
                                 \o "}\":"
        /\ \A i \in 1..Len(response.items) :
               (~Blank(RequestPrefix) \/ i > Len(KEYWORDS.declarations)) =>
                   LET item == response.items[i]
                   IN  /\ DOMAIN item = {"label", "kind", "detail"}
                       /\ \/ Occurs(item.label, KEYWORDS.properties)
                          \/ Occurs(item.label, KEYWORDS.actions)
                          \/ Occurs(item.label, KEYWORDS.types)
                          \/ Occurs(item.label, KEYWORDS.modifiers)

\* a request on an indented, otherwise empty prefix
C9_WitnessBlankPrefix ==
    /\ IsCompletion /\ RequestTracked /\ RequestLineInRange
    /\ RequestPrefix = <<" ">>
    /\ response.items[1].insertText = "app \"${1:ProjectName}\":"
    /\ response.items[2].insertText = "domain \"${1:Name}\":"

\* C10: across the edits of a tracked document the stored version strictly
\* increases: an edit whose version does not exceed the stored one leaves the
\* document's text and version unchanged; an edit of an untracked uri changes
\* nothing.
C10_VersionStrictlyIncreases ==
    [][ lastEvent'.type = "didChange" =>
            IF lastEvent'.uri \in DOMAIN documents
            THEN IF lastEvent'.version > documents[lastEvent'.uri].version
                 THEN documents'[lastEvent'.uri].version = lastEvent'.version
                 ELSE documents' = documents
            ELSE documents' = documents ]_vars

\* C11: a completion request whose character lies beyond the end of the target
\* line is an InvalidPosition and yields an empty candidate list; it is not
\* answered as if the cursor were at the end of the line.
C11_CharacterBeyondLineIsInvalid ==
    (/\ IsCompletion /\ RequestTracked /\ RequestLineInRange
     /\ lastEvent.position.character
            > Len(RequestLines[lastEvent.position.line + 1]))
    => /\ response.kind = "result"
       /\ response.items = <<>>

\* C12: no completion result holds two candidates with the same label, although
\* the catalog lists guard under both declarations and properties.
C12_NoDuplicateLabels ==
    (IsCompletion /\ RequestTracked /\ RequestLineInRange) =>
        /\ response.kind = "result"
        /\ \A i, j \in 1..Len(response.items) :
               response.items[i].label = response.items[j].label => i = j

\* a request after a colon: guard is offered, as a property
C12_WitnessGuardOffered ==
    /\ IsCompletion /\ RequestTracked /\ RequestLineInRange
    /\ RequestPrefix = <<"a", ":">>
    /\ \E i \in 1..Len(response.items) :
           /\ response.items[i].label = "guard"
           /\ response.items[i].kind = "Property"

HasKind(items, kind) == \E i \in 1..Len(items) : items[i].kind = kind

HasSnippet(items) == \E i \in 1..Len(items) : IsSnippet(items[i])

\* C13: every prefix matching AfterColon also matches TypePosition, and no
\* prefix matches LineStart together with AfterColon or TypePosition: properties
\* and actions are never offered without the types after them, and the
\* declaration snippets never share a result with properties, actions or types.
C13_ContextOverlap ==
    (IsCompletion /\ RequestTracked /\ RequestLineInRange) =>
        /\ AfterColonPattern(RequestPrefix) => TypePositionPattern(RequestPrefix)
        /\ ~(LineStartPattern(RequestPrefix) /\ AfterColonPattern(RequestPrefix))
        /\ ~(LineStartPattern(RequestPrefix) /\ TypePositionPattern(RequestPrefix))
        /\ response.kind = "result"
        /\ (HasKind(response.items, "Property") \/ HasKind(response.items, "Method"))
               => /\ HasKind(response.items, "TypeParameter")
                  /\ response.items[Len(response.items) - Len(KEYWORDS.modifiers)].kind
                         = "TypeParameter"
        /\ HasSnippet(response.items) =>
               /\ ~HasKind(response.items, "Property")
               /\ ~HasKind(response.items, "Method")
               /\ ~HasKind(response.items, "TypeParameter")

\* a request after a colon and a space: properties, actions, then types
C13_WitnessAfterColon ==
    /\ IsCompletion /\ RequestTracked /\ RequestLineInRange
    /\ RequestPrefix = <<":", " ">>
    /\ HasKind(response.items, "Property")
    /\ HasKind(response.items, "Method")
    /\ HasKind(response.items, "TypeParameter")

\* C14: every diagnostic validate emits has a well-formed range inside the
\* scanned text: one existing line, 0 <= start.character < end.character <= the
\* length of that line; at most one diagnostic per line, each a Warning with
\* the constant source tag.
C14_RangesWellFormed ==
    output.computed =>
        /\ \A i \in 1..Len(output.diagnostics) :
               LET d == output.diagnostics[i]
               IN  /\ d.range.start.line = d.range.end.line
                   /\ d.range.start.line + 1 \in 1..Len(Split(input))
                   /\ 0 <= d.range.start.character
                   /\ d.range.start.character < d.range.end.character
                   /\ d.range.end.character
                          <= Len(Split(input)[d.range.start.line + 1])
                   /\ d.severity = "Warning"
                   /\ d.source = "pseudo-lang"
        /\ \A l \in 1..Len(Split(input)) :
               Cardinality(DiagnosticsOnLine(output.diagnostics, l - 1)) <= 1

\* a text of two lines that both get a diagnostic
C14_WitnessTwoLines ==
    /\ output.computed
    /\ Len(Split(input)) = 2
    /\ Len(output.diagnostics) = 2
    /\ output.diagnostics[1].range.start.line = 0
    /\ output.diagnostics[2].range.start.line = 1

====
